---- MODULE Spec2Model ----
\* Model of maixcam.py: blob filtering/scoring with three tiers
\* (find_white_frame_center), the serial link wrapper (init_uart, send_coord)
\* and the frame loop of __main__ that ties them together.
EXTENDS Integers, Sequences, FiniteSets, TLC

\* ---------------------------------------------------------------- constants
\* Ratios and weights are decimal fractions in the source; here they are
\* held as integers (tenths or hundredths) and every comparison is
\* cross-multiplied, so the arithmetic is exact.
IMG_WIDTH == 240
IMG_HEIGHT == 240
\* pixels_threshold and area_threshold of find_blobs
MIN_AREA == 100
MAX_AREA == 15000
MIN_W == 25
MIN_H == 10
\* MAX_W_RATIO = 0.85, MAX_H_RATIO = 0.85 (hundredths)
MAX_W_RATIO == 85
MAX_H_RATIO == 85
\* MIN_ASPECT = 0.3, MAX_ASPECT = 3.5 (tenths)
MIN_ASPECT == 3
MAX_ASPECT == 35
\* MIN_DENSITY = 0.01, MAX_DENSITY = 0.45, RELAX_MAX_DENSITY = 0.95 (hundredths)
MIN_DENSITY == 1
MAX_DENSITY == 45
RELAX_MAX_DENSITY == 95
\* CENTER_WEIGHT = 0.4, TRACK_WEIGHT = 1.2 (tenths)
CENTER_WEIGHT == 4
TRACK_WEIGHT == 12
EDGE_MARGIN == 0

\* ------------------------------------------------------------------- bounds
\* Longest blob list find_blobs hands to one frame.
MaxBlobs == 2
\* The loop is made to exit once tx_count has reached this value.
MaxTx == 2
\* Longest blob list in the specification with fairness.
LiveMaxBlobs == 1
\* A nonzero setting of EDGE_MARGIN, to exercise the edge-margin branch.
TunedEdgeMargin == 20

\* ------------------------------------------------------------ blob inputs
Blob(a, bw, bh, x, y) == [area |-> a, w |-> bw, h |-> bh, cx |-> x, cy |-> y]

\* The blob descriptors a frame can contain: area, bounding box (w, h) and
\* centroid.  Hollow (density 1/3), near-solid (2/3) and over-full (10/9)
\* shapes at centroids symmetric about the image centre and on the top edge,
\* a flat one (aspect 10), one blob failing each of the three hard gates,
\* and a degenerate one (zero-height box) on the top edge.
BlobCatalogue ==
    { Blob(300, 30, 30, 100, 120), Blob(300, 30, 30, 140, 120),
      Blob(300, 30, 30, 120, 0),
      Blob(600, 30, 30, 140, 120),
      Blob(500, 30, 15, 100, 120), Blob(500, 30, 15, 120, 0),
      Blob(400, 100, 10, 140, 120),
      Blob(16000, 130, 130, 120, 120),
      Blob(300, 20, 30, 100, 120),
      Blob(5000, 210, 30, 120, 120),
      Blob(100, 30, 0, 120, 0) }

RECURSIVE SeqsUpTo(_, _)
SeqsUpTo(S, n) ==
    IF n = 0 THEN { <<>> }
    ELSE LET shorter == SeqsUpTo(S, n - 1)
         IN shorter \cup { Append(s, x) : s \in { t \in shorter : Len(t) = n - 1 }, x \in S }

\* What find_blobs returns: blobs of at least MIN_AREA pixels, in any order.
BlobLists == SeqsUpTo({ b \in BlobCatalogue : b.area >= MIN_AREA }, MaxBlobs)

LiveBlobLists == SeqsUpTo({ b \in BlobCatalogue : b.area >= MIN_AREA }, LiveMaxBlobs)

\* Python None for the serial handle; an absent best is the empty sequence.
None == "None"
UART == "UART"

VARIABLES
    pc,          \* position in __main__
    serial,      \* the serial handle, or None
    last_cx, last_cy, tx_count, last_tx_ok,
    cx, cy, blob_cnt, valid, out_valid,
    blobs, best, relaxed, fallback,   \* find_white_frame_center's locals at return
    edge_margin, \* the configured EDGE_MARGIN
    linkUp,      \* environment: whether opening and writing the port succeed now
    need_exit,   \* environment: what app.need_exit() returns
    prev_cx, prev_cy,        \* history: last_cx, last_cy passed to this frame's detection
    det,                     \* history: the centroid this frame's detection returned
    sent,                    \* history: the centroid handed to send_coord in this frame
    had_handle,              \* history: the frame started holding a handle
    frameWrites, frameOpens, \* history: write / open attempts in this frame
    frameWriteOk,            \* history: this frame's serial.write returned normally
    okWrites,                \* history: serial.write calls that returned normally
    updated,                 \* history: some frame has assigned last_cx, last_cy
    handleDead               \* history: a write on the held handle has failed

vars == << pc, serial, last_cx, last_cy, tx_count, last_tx_ok, cx, cy, blob_cnt,
           valid, out_valid, blobs, best, relaxed, fallback, edge_margin, linkUp,
           need_exit, prev_cx, prev_cy, det, sent, had_handle, frameWrites,
           frameOpens, frameWriteOk, okWrites, updated, handleDead >>

\* ------------------------------------------------------ init_uart, send_coord
\* Faulty variant: init_uart without its try/except.
InitUartNoCatch(up) ==
    IF up THEN [serial |-> UART, raised |-> FALSE]
    ELSE [serial |-> None, raised |-> TRUE]

\* init_uart: the handle, or None when uart.UART raises (caught).
InitUart(up) ==
    IF up THEN [serial |-> UART, raised |-> FALSE]
    ELSE [serial |-> None, raised |-> FALSE]

\* Faulty variant: send_coord returning the handle after a failed write.
SendCoordKeepHandle(s, up) ==
    IF s = None
    THEN [serial |-> None, ok |-> 0, wrote |-> FALSE, done |-> FALSE, raised |-> FALSE]
    ELSE IF up
    THEN [serial |-> s, ok |-> 1, wrote |-> TRUE, done |-> TRUE, raised |-> FALSE]
    ELSE [serial |-> s, ok |-> 0, wrote |-> TRUE, done |-> FALSE, raised |-> FALSE]

\* send_coord: no handle, no write; a write that raises gives the handle up.
\* serial and ok are the returned pair; wrote says that serial.write was
\* called and done that it returned normally.
SendCoord(s, up) ==
    IF s = None
    THEN [serial |-> None, ok |-> 0, wrote |-> FALSE, done |-> FALSE, raised |-> FALSE]
    ELSE IF up
    THEN [serial |-> s, ok |-> 1, wrote |-> TRUE, done |-> TRUE, raised |-> FALSE]
    ELSE [serial |-> None, ok |-> 0, wrote |-> TRUE, done |-> FALSE, raised |-> FALSE]

\* Faulty variant: the loop without its reconnect.
NeedReopenNever(s) == FALSE

\* if serial is None: serial = init_uart()
NeedReopen(s) == s = None

\* ------------------------------------------------- find_white_frame_center
PassArea(b) == ~(b.area > MAX_AREA)

\* Faulty variant: 'and' for 'or' in the minimum-size gate.
PassMinSizeBoth(b) == ~(b.w < MIN_W /\ b.h < MIN_H)

PassMinSize(b) == ~(b.w < MIN_W \/ b.h < MIN_H)

\* Faulty variant: the maximum-ratio gate testing the height only.
PassMaxRatioHeightOnly(b) == ~(b.h * 100 > IMG_HEIGHT * MAX_H_RATIO)

PassMaxRatio(b) ==
    ~(b.w * 100 > IMG_WIDTH * MAX_W_RATIO \/ b.h * 100 > IMG_HEIGHT * MAX_H_RATIO)

Sq(n) == n * n

\* Faulty variant: the score without the tracking term.
ScoreNoTrack(b, lcx, lcy) ==
    10 * b.area - CENTER_WEIGHT * (Sq(b.cx - IMG_WIDTH \div 2) + Sq(b.cy - IMG_HEIGHT \div 2))

\* Ten times the source's score (the weights are in tenths); img_cx and
\* img_cy are IMG_WIDTH / 2 and IMG_HEIGHT / 2.
Score(b, lcx, lcy) ==
    LET dx0 == b.cx - IMG_WIDTH \div 2
        dy0 == b.cy - IMG_HEIGHT \div 2
        s0 == 10 * b.area - CENTER_WEIGHT * (Sq(dx0) + Sq(dy0))
    IN IF lcx # 0 \/ lcy # 0
       THEN s0 - TRACK_WEIGHT * (Sq(b.cx - lcx) + Sq(b.cy - lcy))
       ELSE s0

\* aspect = w / h within [MIN_ASPECT, MAX_ASPECT]
AspectOk(b) == ~(b.w * 10 < MIN_ASPECT * b.h \/ b.w * 10 > MAX_ASPECT * b.h)

\* Faulty variant: the density band without its upper end.
DensityBandNoUpper(b) == ~(b.area * 100 < MIN_DENSITY * b.w * b.h)

\* density = area / (w * h) within [MIN_DENSITY, RELAX_MAX_DENSITY]
DensityBandOk(b) ==
    ~(b.area * 100 < MIN_DENSITY * b.w * b.h \/ b.area * 100 > RELAX_MAX_DENSITY * b.w * b.h)

DensityStrictOk(b) == b.area * 100 <= MAX_DENSITY * b.w * b.h

\* The edge-margin test that raises Exception("edge").
EdgeRaises(b, em) ==
    /\ em # 0
    /\ \/ b.cx < em \/ b.cx > IMG_WIDTH - em
       \/ b.cy < em \/ b.cy > IMG_HEIGHT - em

\* Faulty variant: the running best replaced without comparing scores.
BetterAlways(cur, cur_score, score) == TRUE

\* "x is None or score > x_score"
Better(cur, cur_score, score) == cur = <<>> \/ score > cur_score

EmptyAcc ==
    [best |-> <<>>, best_score |-> 0, relaxed |-> <<>>, relaxed_score |-> 0,
     fallback |-> <<>>, fallback_score |-> 0]

\* Faulty variant: the fallback tracked after the aspect and density gates.
TrackFallbackAfterGates(acc, b, score) ==
    IF AspectOk(b) /\ DensityBandOk(b) /\ Better(acc.fallback, acc.fallback_score, score)
    THEN [acc EXCEPT !.fallback = <<b>>, !.fallback_score = score]
    ELSE acc

TrackFallback(acc, b, score) ==
    IF Better(acc.fallback, acc.fallback_score, score)
    THEN [acc EXCEPT !.fallback = <<b>>, !.fallback_score = score]
    ELSE acc

TrackBest(acc, b, score) ==
    IF Better(acc.best, acc.best_score, score)
    THEN [acc EXCEPT !.best = <<b>>, !.best_score = score]
    ELSE acc

TrackRelaxed(acc, b, score) ==
    IF Better(acc.relaxed, acc.relaxed_score, score)
    THEN [acc EXCEPT !.relaxed = <<b>>, !.relaxed_score = score]
    ELSE acc

\* One iteration of "for b in blobs"; every "continue", and the except
\* clause that turns the edge exception into a continue, leaves acc as it
\* is at that point.
StepBlob(acc, b, lcx, lcy, em) ==
    IF ~PassArea(b) THEN acc
    ELSE IF ~PassMinSize(b) THEN acc
    ELSE IF ~PassMaxRatio(b) THEN acc
    ELSE LET score == Score(b, lcx, lcy)
             a1 == TrackFallback(acc, b, score)
         IN IF ~AspectOk(b) THEN a1
            ELSE IF ~DensityBandOk(b) THEN a1
            ELSE IF DensityStrictOk(b) /\ EdgeRaises(b, em) THEN a1
            ELSE LET a2 == IF DensityStrictOk(b) THEN TrackBest(a1, b, score) ELSE a1
                 IN TrackRelaxed(a2, b, score)

RECURSIVE ScanFrom(_, _, _, _, _, _)
ScanFrom(acc, bs, i, lcx, lcy, em) ==
    IF i > Len(bs) THEN acc
    ELSE ScanFrom(StepBlob(acc, bs[i], lcx, lcy, em), bs, i + 1, lcx, lcy, em)

\* The whole scan loop, in list order.
Evaluate(bs, lcx, lcy, em) == ScanFrom(EmptyAcc, bs, 1, lcx, lcy, em)

Result(x, y, n, tag, acc) == [cx |-> x, cy |-> y, blob_cnt |-> n, valid |-> tag, acc |-> acc]

\* Faulty variant: the relaxed return placed before the strict one.
SelectRelaxedFirst(acc, n) ==
    IF acc.relaxed # <<>> THEN Result(acc.relaxed[1].cx, acc.relaxed[1].cy, n, 3, acc)
    ELSE IF acc.best # <<>> THEN Result(acc.best[1].cx, acc.best[1].cy, n, 1, acc)
    ELSE IF acc.fallback # <<>> THEN Result(acc.fallback[1].cx, acc.fallback[1].cy, n, 4, acc)
    ELSE Result(0, 0, n, 0, acc)

\* The four returns after the loop.
Select(acc, n) ==
    IF acc.best # <<>> THEN Result(acc.best[1].cx, acc.best[1].cy, n, 1, acc)
    ELSE IF acc.relaxed # <<>> THEN Result(acc.relaxed[1].cx, acc.relaxed[1].cy, n, 3, acc)
    ELSE IF acc.fallback # <<>> THEN Result(acc.fallback[1].cx, acc.fallback[1].cy, n, 4, acc)
    ELSE Result(0, 0, n, 0, acc)

FindWhiteFrameCenter(bs, lcx, lcy, em) ==
    IF bs = <<>> THEN Result(0, 0, 0, 0, EmptyAcc)
    ELSE Select(Evaluate(bs, lcx, lcy, em), Len(bs))

\* ------------------------------------------------------------- frame loop
\* Faulty variant: the centroid stored unconditionally.
UpdateCondAlways(x, y, ov) == TRUE

\* Faulty variant: "if (cx or cy) and out_valid".
UpdateCondEither(x, y, ov) == (x # 0 \/ y # 0) /\ ov # 0

\* "if cx and cy and out_valid"
UpdateCond(x, y, ov) == x # 0 /\ y # 0 /\ ov # 0

\* Faulty variant: a fallback result treated as no detection.
OutCentroidStrictOnly(x, y, v) == IF v \in {1, 3} THEN << x, y >> ELSE << 0, 0 >>

\* "if not valid: cx, cy = 0, 0"
OutCentroid(x, y, v) == IF v = 0 THEN << 0, 0 >> ELSE << x, y >>

\* Faulty variant: "while True".
ContinueLoopAlways(ne) == TRUE

\* "while not app.need_exit()"
ContinueLoop(ne) == ~ne

\* Faulty variant: tx_count incremented in every frame.
TxIncrementAlways(ok) == 1

\* "if last_tx_ok: tx_count += 1"
TxIncrement(ok) == IF ok # 0 THEN 1 ELSE 0

Init ==
    /\ linkUp \in BOOLEAN
    /\ need_exit = FALSE
    /\ edge_margin \in {EDGE_MARGIN, TunedEdgeMargin}
    /\ serial = InitUart(linkUp).serial
    /\ pc = IF InitUart(linkUp).raised THEN "crashed" ELSE "loop"
    /\ last_cx = 0 /\ last_cy = 0 /\ tx_count = 0 /\ last_tx_ok = 0
    /\ cx = 0 /\ cy = 0 /\ blob_cnt = 0 /\ valid = 0 /\ out_valid = 0
    /\ blobs = <<>> /\ best = <<>> /\ relaxed = <<>> /\ fallback = <<>>
    /\ prev_cx = 0 /\ prev_cy = 0 /\ det = << 0, 0 >> /\ sent = <<>>
    /\ had_handle = FALSE /\ frameWrites = 0 /\ frameOpens = 0
    /\ frameWriteOk = FALSE /\ okWrites = 0 /\ updated = FALSE
    /\ handleDead = FALSE

\* while not app.need_exit(): the loop is left, or the next iteration starts.
\* Once tx_count has reached MaxTx the test waits for the stop signal.
LoopTest ==
    /\ pc = "loop"
    /\ tx_count < MaxTx \/ ~ContinueLoop(need_exit)
    /\ IF ContinueLoop(need_exit)
       THEN /\ pc' = "frame"
            /\ had_handle' = (serial # None)
            /\ frameWrites' = 0 /\ frameOpens' = 0 /\ frameWriteOk' = FALSE
       ELSE /\ pc' = "stopped"
            /\ UNCHANGED << had_handle, frameWrites, frameOpens, frameWriteOk >>
    /\ UNCHANGED << serial, last_cx, last_cy, tx_count, last_tx_ok, cx, cy, blob_cnt,
                    valid, out_valid, blobs, best, relaxed, fallback, edge_margin,
                    linkUp, need_exit, prev_cx, prev_cy, det, sent, okWrites, updated,
                    handleDead >>

\* cam.read() ... find_white_frame_center(gray, black_binary, last_cx, last_cy)
DetectFrom(lists) ==
    /\ pc = "frame"
    /\ \E bs \in lists :
          LET r == FindWhiteFrameCenter(bs, last_cx, last_cy, edge_margin)
          IN /\ cx' = r.cx /\ cy' = r.cy /\ blob_cnt' = r.blob_cnt /\ valid' = r.valid
             /\ blobs' = bs
             /\ best' = r.acc.best /\ relaxed' = r.acc.relaxed /\ fallback' = r.acc.fallback
             /\ det' = << r.cx, r.cy >>
    /\ prev_cx' = last_cx /\ prev_cy' = last_cy
    /\ pc' = "update"
    /\ UNCHANGED << serial, last_cx, last_cy, tx_count, last_tx_ok, out_valid,
                    edge_margin, linkUp, need_exit, sent, had_handle, frameWrites,
                    frameOpens, frameWriteOk, okWrites, updated, handleDead >>

\* out_valid = valid ... last_cx, last_cy = cx, cy
\* (the detection's locals blobs, best, relaxed, fallback are kept up to here
\* and dropped by this step)
Update ==
    /\ pc = "update"
    /\ LET c == OutCentroid(cx, cy, valid)
           ov == IF valid = 0 THEN 0 ELSE valid
       IN /\ cx' = c[1] /\ cy' = c[2] /\ out_valid' = ov
          /\ IF UpdateCond(c[1], c[2], ov)
             THEN last_cx' = c[1] /\ last_cy' = c[2] /\ updated' = TRUE
             ELSE UNCHANGED << last_cx, last_cy, updated >>
    /\ blobs' = <<>> /\ best' = <<>> /\ relaxed' = <<>> /\ fallback' = <<>>
    /\ pc' = "send"
    /\ UNCHANGED << serial, tx_count, last_tx_ok, blob_cnt, valid, edge_margin, linkUp,
                    need_exit, prev_cx, prev_cy, det, sent, had_handle, frameWrites,
                    frameOpens, frameWriteOk, okWrites, handleDead >>

\* serial, last_tx_ok = send_coord(serial, cx, cy); if last_tx_ok: tx_count += 1
Send ==
    /\ pc = "send"
    /\ LET r == SendCoord(serial, linkUp)
       IN /\ serial' = r.serial
          /\ last_tx_ok' = r.ok
          /\ tx_count' = tx_count + TxIncrement(r.ok)
          /\ sent' = << cx, cy >>
          /\ frameWrites' = IF r.wrote THEN frameWrites + 1 ELSE frameWrites
          /\ frameWriteOk' = r.done
          /\ okWrites' = IF r.done THEN okWrites + 1 ELSE okWrites
          /\ handleDead' = (r.serial # None /\ (handleDead \/ (r.wrote /\ ~r.done)))
          /\ pc' = IF r.raised THEN "crashed" ELSE "reopen"
    /\ UNCHANGED << last_cx, last_cy, cx, cy, blob_cnt, valid, out_valid, blobs, best,
                    relaxed, fallback, edge_margin, linkUp, need_exit, prev_cx, prev_cy,
                    det, had_handle, frameOpens, updated >>

\* if serial is None: serial = init_uart()
Reopen ==
    /\ pc = "reopen"
    /\ IF NeedReopen(serial)
       THEN LET r == InitUart(linkUp)
            IN /\ serial' = r.serial
               /\ frameOpens' = frameOpens + 1
               /\ handleDead' = FALSE
               /\ pc' = IF r.raised THEN "crashed" ELSE "display"
       ELSE /\ pc' = "display"
            /\ UNCHANGED << serial, frameOpens, handleDead >>
    /\ UNCHANGED << last_cx, last_cy, tx_count, last_tx_ok, cx, cy, blob_cnt, valid,
                    out_valid, blobs, best, relaxed, fallback, edge_margin, linkUp,
                    need_exit, prev_cx, prev_cy, det, sent, had_handle, frameWrites,
                    frameWriteOk, okWrites, updated >>

\* The overlay, status line and console output, which only read the state.
\* cx, cy, blob_cnt, valid and out_valid are assigned afresh by the next
\* iteration before anything reads them, so the end of the iteration
\* forgets them (0, as before the first iteration).
Display ==
    /\ pc = "display"
    /\ pc' = "loop"
    /\ cx' = 0 /\ cy' = 0 /\ blob_cnt' = 0 /\ valid' = 0 /\ out_valid' = 0
    /\ prev_cx' = 0 /\ prev_cy' = 0 /\ det' = << 0, 0 >> /\ sent' = <<>>
    /\ UNCHANGED << serial, last_cx, last_cy, tx_count, last_tx_ok, blobs, best,
                    relaxed, fallback, edge_margin, linkUp, need_exit, had_handle,
                    frameWrites, frameOpens, frameWriteOk, okWrites, updated,
                    handleDead >>

\* The port becomes unavailable, or available again, at any moment.
LinkChange ==
    /\ pc \notin {"stopped", "crashed"}
    /\ linkUp' = ~linkUp
    /\ UNCHANGED << pc, serial, last_cx, last_cy, tx_count, last_tx_ok, cx, cy, blob_cnt,
                    valid, out_valid, blobs, best, relaxed, fallback, edge_margin,
                    need_exit, prev_cx, prev_cy, det, sent, had_handle, frameWrites,
                    frameOpens, frameWriteOk, okWrites, updated, handleDead >>

\* The stop signal is raised at any moment, and stays raised.
RequestExit ==
    /\ pc \notin {"stopped", "crashed"}
    /\ ~need_exit
    /\ need_exit' = TRUE
    /\ UNCHANGED << pc, serial, last_cx, last_cy, tx_count, last_tx_ok, cx, cy, blob_cnt,
                    valid, out_valid, blobs, best, relaxed, fallback, edge_margin,
                    linkUp, prev_cx, prev_cy, det, sent, had_handle, frameWrites,
                    frameOpens, frameWriteOk, okWrites, updated, handleDead >>

Detect == DetectFrom(BlobLists)

Step == LoopTest \/ Detect \/ Update \/ Send \/ Reopen \/ Display

Environment == LinkChange \/ RequestExit

Next == Step \/ Environment

Spec == Init /\ [][Next]_vars

\* The same program over the shorter blob lists, for the properties of the
\* serial link and of the loop over unboundedly many frames.
LiveDetect == DetectFrom(LiveBlobLists)

LiveStep == LoopTest \/ LiveDetect \/ Update \/ Send \/ Reopen \/ Display

LiveNext == LiveStep \/ Environment

\* The interpreter keeps executing the loop while it has a next statement.
LiveSpec == Init /\ [][LiveNext]_vars /\ WF_vars(LiveStep)

\* ------------------------------------------------------------------ claims
\* At pc = "update" the frame's detection has returned and the update of
\* last_cx, last_cy has not run; at pc = "send" it has.

C2_ValidFrameStoresCentroid ==
    (pc = "send" /\ valid \in {1, 3}) => (last_cx = cx /\ last_cy = cy)

\* C3: the result is the first non-empty tier in the order strict, relaxed,
\* fallback, at that tier's best centroid, and tier none at (0,0) otherwise.
C3_TierResolution ==
    pc = "update" =>
        /\ best # <<>> => (valid = 1 /\ cx = best[1].cx /\ cy = best[1].cy)
        /\ (best = <<>> /\ relaxed # <<>>) =>
               (valid = 3 /\ cx = relaxed[1].cx /\ cy = relaxed[1].cy)
        /\ (best = <<>> /\ relaxed = <<>> /\ fallback # <<>>) =>
               (valid = 4 /\ cx = fallback[1].cx /\ cy = fallback[1].cy)
        /\ (best = <<>> /\ relaxed = <<>> /\ fallback = <<>>) =>
               (valid = 0 /\ cx = 0 /\ cy = 0)

\* The strict best is returned although a different blob is the relaxed best.
C3_Witness ==
    /\ pc = "update" /\ valid = 1
    /\ best # <<>> /\ relaxed # <<>> /\ relaxed # best
    /\ cx = best[1].cx /\ cx # relaxed[1].cx

\* C4: when some blob of the frame passes the area, minimum-size and
\* maximum-ratio gates, the fallback best is non-empty and the tier is not
\* none, whatever else the list holds and in whatever order.
C4_FallbackNeverEmpty ==
    (pc = "update" /\ \E i \in 1..Len(blobs) :
         /\ blobs[i].area <= MAX_AREA
         /\ blobs[i].w >= MIN_W /\ blobs[i].h >= MIN_H
         /\ blobs[i].w * 100 <= IMG_WIDTH * MAX_W_RATIO
         /\ blobs[i].h * 100 <= IMG_HEIGHT * MAX_H_RATIO)
    => (fallback # <<>> /\ valid # 0)

\* A gate-passing blob that qualifies for no higher tier, scanned after a
\* blob that fails a gate, is returned as fallback.
C4_Witness ==
    /\ pc = "update" /\ Len(blobs) = 2 /\ valid = 4
    /\ blobs[1].area > MAX_AREA
    /\ fallback = <<blobs[2]>>

\* C5: when no blob passes the area and minimum-size gates (the empty list
\* included) the result is tier none at (0,0) and the blob count is the
\* number of blobs of the frame.
C5_NoCandidateIsNone ==
    (pc = "update" /\ \A i \in 1..Len(blobs) :
         ~(blobs[i].area <= MAX_AREA /\ blobs[i].w >= MIN_W /\ blobs[i].h >= MIN_H))
    => (valid = 0 /\ cx = 0 /\ cy = 0 /\ blob_cnt = Len(blobs))

\* Two blobs, one too large and one too narrow: tier none, count 2.
C5_Witness ==
    /\ pc = "update" /\ Len(blobs) = 2 /\ blob_cnt = 2 /\ valid = 0
    /\ blobs[1].area > MAX_AREA /\ blobs[2].w < MIN_W
    /\ cx = 0 /\ cy = 0

\* C6: a write attempt either succeeds and keeps the handle or fails and
\* leaves no handle, so a handle whose write failed is never held (and so
\* never written) again; a frame makes at most one write attempt and at
\* most one open attempt, and no open or write failure aborts the frame.
C6_WriteOrTeardown ==
    /\ ~handleDead
    /\ frameWrites <= 1 /\ frameOpens <= 1
    /\ pc # "crashed"
    /\ (pc = "reopen" /\ frameWrites = 1) =>
           \/ last_tx_ok = 1 /\ serial # None
           \/ last_tx_ok = 0 /\ serial = None

\* A frame whose write failed and whose one reopen failed too has completed.
C6_Witness ==
    /\ pc = "display" /\ had_handle
    /\ frameWrites = 1 /\ last_tx_ok = 0
    /\ frameOpens = 1 /\ serial = None

\* C7: a frame that starts without a handle completes without raising,
\* reports transmit failure and makes an open attempt, which yields a handle
\* when the port is available, and a write on a held handle succeeds when
\* the port is available; so if from some point on the port stays
\* available, then from some point on every frame ends with a successful
\* write.
C7_NoLockout ==
    /\ [](pc # "crashed")
    /\ []((pc = "display" /\ ~had_handle) => (frameOpens = 1 /\ last_tx_ok = 0))
    /\ [][(pc = "reopen" /\ pc' # pc /\ serial = None /\ linkUp) => serial' # None]_vars
    /\ [][(pc = "send" /\ pc' # pc /\ serial # None /\ linkUp) => last_tx_ok' = 1]_vars
    /\ ((<>[]linkUp) => <>[](pc = "display" => last_tx_ok = 1))

\* A frame that started without a handle and could not open one has
\* completed, after an earlier frame had transmitted.
C7_Witness ==
    /\ pc = "display" /\ ~had_handle
    /\ frameOpens = 1 /\ serial = None /\ last_tx_ok = 0
    /\ tx_count > 0

\* C8: every frame attempts to write exactly one line, the frames that began
\* without a handle included.
C8_EveryFrameWrites == pc = "display" => frameWrites = 1

\* C9: with a nonzero edge margin, a blob that passes the hard gates, the
\* aspect gate and the strict density gate but lies within the margin still
\* competes for the relaxed and fallback bests.
C9_EdgeExcludesStrictOnly ==
    (pc = "update" /\ edge_margin # 0) =>
        \A i \in 1..Len(blobs) :
            LET b == blobs[i]
            IN (/\ PassArea(b) /\ PassMinSize(b) /\ PassMaxRatio(b)
                /\ AspectOk(b) /\ DensityBandOk(b) /\ DensityStrictOk(b)
                /\ EdgeRaises(b, edge_margin))
               => /\ relaxed # <<>>
                  /\ Score(relaxed[1], last_cx, last_cy) >= Score(b, last_cx, last_cy)
                  /\ fallback # <<>>
                  /\ Score(fallback[1], last_cx, last_cy) >= Score(b, last_cx, last_cy)

\* The scan orders of a blob list.
ScanOrders(bs) ==
    LET n == Len(bs)
        bij == { f \in [1..n -> 1..n] : \A i, j \in 1..n : f[i] = f[j] => i = j }
    IN { [i \in 1..n |-> bs[f[i]]] : f \in bij }

\* C10 (as stated): every scan order of the frame's blobs yields the same
\* strict, relaxed and fallback bests.
C10_OrderIndependentBests ==
    pc = "update" =>
        \A p \in ScanOrders(blobs) :
            LET e == Evaluate(p, last_cx, last_cy, edge_margin)
            IN e.best = best /\ e.relaxed = relaxed /\ e.fallback = fallback

\* C10 (amended): every scan order yields the same tier and, in each tier,
\* a best of the same score; the bests themselves (and the selected
\* centroid) are the same when no two different gate-passing blobs of the
\* frame have equal scores. With equal scores the first one scanned is kept.
C10_OrderIndependentScores ==
    pc = "update" =>
        LET sc(o) == IF o = <<>> THEN <<>> ELSE << Score(o[1], last_cx, last_cy) >>
            cand == { blobs[i] : i \in { j \in 1..Len(blobs) :
                          PassArea(blobs[j]) /\ PassMinSize(blobs[j]) /\ PassMaxRatio(blobs[j]) } }
            noTies == \A a, b \in cand :
                          a # b => Score(a, last_cx, last_cy) # Score(b, last_cx, last_cy)
        IN \A p \in ScanOrders(blobs) :
               LET e == Evaluate(p, last_cx, last_cy, edge_margin)
                   r == FindWhiteFrameCenter(p, last_cx, last_cy, edge_margin)
               IN /\ sc(e.best) = sc(best)
                  /\ sc(e.relaxed) = sc(relaxed)
                  /\ sc(e.fallback) = sc(fallback)
                  /\ r.valid = valid
                  /\ noTies => (/\ e.best = best /\ e.relaxed = relaxed
                                /\ e.fallback = fallback
                                /\ r.cx = cx /\ r.cy = cy)

\* Two different strict candidates of different scores, the better one
\* scanned first and kept.
C10_Witness ==
    /\ pc = "update" /\ Len(blobs) = 2 /\ valid = 1
    /\ blobs[1] # blobs[2]
    /\ best = << blobs[1] >>
    /\ DensityStrictOk(blobs[2]) /\ PassMinSize(blobs[2]) /\ blobs[2].cy # 0
    /\ Score(blobs[1], last_cx, last_cy) > Score(blobs[2], last_cx, last_cy)

C12_TransmittedCentroid ==
    /\ (pc = "update" /\ valid = 1) => det = << best[1].cx, best[1].cy >>
    /\ (pc = "update" /\ valid = 3) => det = << relaxed[1].cx, relaxed[1].cy >>
    /\ (pc = "update" /\ valid = 4) => det = << fallback[1].cx, fallback[1].cy >>
    /\ (pc \in {"reopen", "display"} /\ valid = 0) =>
           /\ sent = << 0, 0 >>
           /\ last_cx = prev_cx /\ last_cy = prev_cy
    /\ (pc \in {"reopen", "display"} /\ valid # 0) => sent = det

\* A none frame after a frame that stored a centroid: (0,0) has been handed
\* to send_coord and the stored centroid is still there.
C12_Witness ==
    /\ pc = "reopen" /\ valid = 0 /\ blob_cnt > 0
    /\ sent = << 0, 0 >>
    /\ last_cx # 0 /\ last_cx = prev_cx /\ last_cy = prev_cy

\* C13: the blob returned with tier strict (1) has w/h within [MIN_ASPECT,
\* MAX_ASPECT] and area/(w*h) within [MIN_DENSITY, MAX_DENSITY]; the blob
\* returned with tier relaxed (3) has w/h in that range and area/(w*h) within
\* [MIN_DENSITY, RELAX_MAX_DENSITY]; a blob of the frame that passes the
\* area, minimum-size and maximum-ratio gates but has its aspect out of range
\* or its density outside [MIN_DENSITY, RELAX_MAX_DENSITY] is not the blob
\* returned with tier 1 or 3.
C13_TierGateSoundness ==
    LET aspectIn(b) == MIN_ASPECT * b.h <= b.w * 10 /\ b.w * 10 <= MAX_ASPECT * b.h
        densityIn(b, hi) ==
            MIN_DENSITY * b.w * b.h <= b.area * 100 /\ b.area * 100 <= hi * b.w * b.h
        hard(b) == PassArea(b) /\ PassMinSize(b) /\ PassMaxRatio(b)
    IN pc = "update" =>
          /\ valid = 1 => aspectIn(best[1]) /\ densityIn(best[1], MAX_DENSITY)
          /\ valid = 3 => aspectIn(relaxed[1]) /\ densityIn(relaxed[1], RELAX_MAX_DENSITY)
          /\ \A i \in 1..Len(blobs) :
                (hard(blobs[i]) /\ ~(aspectIn(blobs[i]) /\ densityIn(blobs[i], RELAX_MAX_DENSITY)))
                => /\ valid = 1 => best[1] # blobs[i]
                   /\ valid = 3 => relaxed[1] # blobs[i]
                   /\ (valid = 4 /\ Len(blobs) = 1) => fallback[1] = blobs[i]

\* The blob of area 500 in a 30x15 box (density above RELAX_MAX_DENSITY),
\* seen together with a flat blob of aspect 10: the result is a fallback.
C13_Witness ==
    /\ pc = "update" /\ valid = 4 /\ Len(blobs) = 2
    /\ \E i \in 1..2 : blobs[i].area = 500 /\ blobs[i].w = 30 /\ blobs[i].h = 15
    /\ \E i \in 1..2 : blobs[i].w = 100 /\ blobs[i].h = 10
    /\ fallback[1] \in { blobs[1], blobs[2] }

\* C14: in every frame, the blob whose centroid is returned, and each of
\* the strict, relaxed and fallback bests, has area <= MAX_AREA, w >= MIN_W,
\* h >= MIN_H, w <= IMG_WIDTH * MAX_W_RATIO and h <= IMG_HEIGHT * MAX_H_RATIO;
\* a blob of the frame failing one of these is none of the three bests.
C14_HardGateSoundness ==
    LET hardOk(b) ==
            /\ b.area <= MAX_AREA
            /\ b.w >= MIN_W /\ b.h >= MIN_H
            /\ b.w * 100 <= IMG_WIDTH * MAX_W_RATIO
            /\ b.h * 100 <= IMG_HEIGHT * MAX_H_RATIO
        bests == { best, relaxed, fallback } \ { <<>> }
    IN pc = "update" =>
          /\ \A t \in bests : hardOk(t[1])
          /\ \A i \in 1..Len(blobs) : ~hardOk(blobs[i]) => \A t \in bests : t[1] # blobs[i]
          /\ valid # 0 => \E t \in bests : det = << t[1].cx, t[1].cy >>
          /\ (\A i \in 1..Len(blobs) : ~hardOk(blobs[i])) => valid = 0

\* A blob wider than IMG_WIDTH * MAX_W_RATIO scanned before a blob that
\* passes the hard gates: the second one is the returned blob.
C14_Witness ==
    /\ pc = "update" /\ Len(blobs) = 2 /\ valid # 0
    /\ blobs[1].w * 100 > IMG_WIDTH * MAX_W_RATIO
    /\ fallback = << blobs[2] >>
    /\ det = << blobs[2].cx, blobs[2].cy >>

\* C15: after the scan of any frame, a strict best implies a relaxed best,
\* a relaxed best implies a fallback best, score(fallback best) >=
\* score(relaxed best) >= score(strict best), and each tier's best is a
\* blob of maximum score among the frame's blobs that pass the tier's gates:
\* the hard gates for fallback; those, the aspect range and the density band
\* for relaxed; those, density <= MAX_DENSITY and the edge margin for strict.
C15_TierNestingMaxima ==
    LET sc(b) == Score(b, last_cx, last_cy)
        fallbackGate(b) ==
            /\ b.area <= MAX_AREA /\ b.w >= MIN_W /\ b.h >= MIN_H
            /\ b.w * 100 <= IMG_WIDTH * MAX_W_RATIO
            /\ b.h * 100 <= IMG_HEIGHT * MAX_H_RATIO
        relaxedGate(b) ==
            /\ fallbackGate(b)
            /\ MIN_ASPECT * b.h <= b.w * 10 /\ b.w * 10 <= MAX_ASPECT * b.h
            /\ MIN_DENSITY * b.w * b.h <= b.area * 100
            /\ b.area * 100 <= RELAX_MAX_DENSITY * b.w * b.h
        strictGate(b) ==
            /\ relaxedGate(b)
            /\ b.area * 100 <= MAX_DENSITY * b.w * b.h
            /\ edge_margin # 0 =>
                  /\ edge_margin <= b.cx /\ b.cx <= IMG_WIDTH - edge_margin
                  /\ edge_margin <= b.cy /\ b.cy <= IMG_HEIGHT - edge_margin
        MaxOf(t, gate(_)) ==
            IF \E i \in 1..Len(blobs) : gate(blobs[i])
            THEN /\ t # <<>>
                 /\ \E i \in 1..Len(blobs) : gate(blobs[i]) /\ t[1] = blobs[i]
                 /\ \A i \in 1..Len(blobs) : gate(blobs[i]) => sc(t[1]) >= sc(blobs[i])
            ELSE t = <<>>
    IN pc = "update" =>
          /\ best # <<>> => relaxed # <<>>
          /\ relaxed # <<>> => fallback # <<>>
          /\ relaxed # <<>> => sc(fallback[1]) >= sc(relaxed[1])
          /\ best # <<>> => sc(relaxed[1]) >= sc(best[1])
          /\ MaxOf(best, strictGate)
          /\ MaxOf(relaxed, relaxedGate)
          /\ MaxOf(fallback, fallbackGate)

\* C16: a blob of the frame whose bounding box has zero width or height, or
\* whose evaluation raises (it reaches the edge-margin test and fails it), is
\* none of the strict, relaxed and fallback bests, and the three bests are
\* those the scan yields for the frame without that blob.
C16_CandidateErrorsLocal ==
    LET degenerate(b) == b.w = 0 \/ b.h = 0
        raises(b) ==
            /\ PassArea(b) /\ PassMinSize(b) /\ PassMaxRatio(b)
            /\ AspectOk(b) /\ DensityBandOk(b) /\ DensityStrictOk(b)
            /\ EdgeRaises(b, edge_margin)
        Without(i) == SubSeq(blobs, 1, i - 1) \o SubSeq(blobs, i + 1, Len(blobs))
    IN pc = "update" =>
          \A i \in 1..Len(blobs) :
              (degenerate(blobs[i]) \/ raises(blobs[i])) =>
                  /\ best # << blobs[i] >>
                  /\ relaxed # << blobs[i] >>
                  /\ fallback # << blobs[i] >>
                  /\ LET e == Evaluate(Without(i), last_cx, last_cy, edge_margin)
                     IN e.best = best /\ e.relaxed = relaxed /\ e.fallback = fallback

\* C17: the program counter only moves along loop test -> detection
\* (evaluate and select) -> update of last_cx, last_cy -> send_coord ->
\* reopen -> display -> loop test, one iteration at a time; last_cx, last_cy
\* change only in the update step and a centroid is handed to send_coord only
\* in the send step; the stop signal is read only by the loop test, so an
\* iteration under way when it is raised runs to its end, the loop test
\* then leaves the loop instead of starting an iteration, and once the
\* signal is raised the loop eventually stops, for good.
C17_CycleOrderAndStop ==
    /\ [][pc' # pc =>
            << pc, pc' >> \in { << "loop", "frame" >>, << "loop", "stopped" >>,
                                << "frame", "update" >>, << "update", "send" >>,
                                << "send", "reopen" >>, << "reopen", "display" >>,
                                << "display", "loop" >> }]_vars
    /\ [][(last_cx' # last_cx \/ last_cy' # last_cy) => (pc = "update" /\ pc' = "send")]_vars
    /\ [][(sent' # sent /\ sent' # <<>>) => (pc = "send" /\ pc' = "reopen")]_vars
    /\ [][(det' # det /\ pc' # "loop") => (pc = "frame" /\ pc' = "update")]_vars
    /\ [][(pc = "loop" /\ pc' = "frame") => ~need_exit]_vars
    /\ [][(pc = "loop" /\ pc' = "stopped") => need_exit]_vars
    /\ [][pc = "stopped" => pc' = "stopped"]_vars
    /\ need_exit ~> (pc = "stopped")

\* The loop has stopped on the stop signal after an iteration that stored a
\* centroid and wrote a line.
C17_Witness ==
    /\ pc = "stopped" /\ need_exit
    /\ updated /\ tx_count = 1 /\ okWrites = 1

\* C18: in every reachable state last_cx is 0 exactly when last_cy is 0;
\* once last_cx, last_cy have left (0,0) they never return to it; and the
\* scorer's test "last_cx or last_cy" is true exactly when some earlier
\* frame has assigned last_cx, last_cy.
C18_SentinelInvariant ==
    /\ []((last_cx = 0) <=> (last_cy = 0))
    /\ []((last_cx # 0 \/ last_cy # 0) <=> updated)
    /\ [](pc = "update" => ((prev_cx # 0 \/ prev_cy # 0) <=> updated))
    /\ [][(last_cx # 0 \/ last_cy # 0) => (last_cx' # 0 \/ last_cy' # 0)]_vars

\* A none frame seen after a frame that stored a centroid: the stored
\* centroid, both coordinates nonzero, was the prior of the detection and is
\* kept.
C18_Witness ==
    /\ pc = "send" /\ valid = 0 /\ blob_cnt > 0
    /\ updated /\ prev_cx # 0 /\ prev_cy # 0
    /\ last_cx = prev_cx /\ last_cy = prev_cy

\* C19: tx_count equals the number of serial.write calls that have returned
\* normally since start; each step leaves it unchanged or adds exactly 1,
\* and adds 1 exactly in the send step of a frame whose write succeeded
\* (not in a frame without a handle or with a failed write); after a
\* frame's send, last_tx_ok is 1 exactly when that frame's write succeeded,
\* and 0 otherwise.
C19_TxCountCountsWrites ==
    /\ [](tx_count = okWrites)
    /\ [](last_tx_ok \in {0, 1})
    /\ [](pc \in {"reopen", "display", "loop", "stopped"} =>
             ((last_tx_ok = 1) <=> frameWriteOk))
    /\ [](pc \in {"reopen", "display"} =>
             (frameWriteOk => (had_handle /\ frameWrites = 1)))
    /\ [][tx_count' \in {tx_count, tx_count + 1}]_vars
    /\ [][(tx_count' = tx_count + 1) <=> (pc = "send" /\ frameWriteOk')]_vars

\* A frame whose write failed after a frame whose write succeeded: the
\* counter stays at 1 and last_tx_ok is 0.
C19_Witness ==
    /\ pc = "display"
    /\ tx_count = 1 /\ okWrites = 1
    /\ had_handle /\ frameWrites = 1 /\ ~frameWriteOk /\ last_tx_ok = 0

====
